---- MODULE Spec2Model ----
(***************************************************************************)
(* Event store and metrics aggregation of the AI agent tracking dashboard. *)
(*                                                                         *)
(* The events table is a DynamoDB table with partition key agent_id and    *)
(* sort key timestamp.  Events are written through validate_event and      *)
(* put_item, read with a key-condition query (agent_id = .. AND timestamp  *)
(* BETWEEN .. AND ..) and reduced by calculate_daily_metrics.              *)
(*                                                                         *)
(* Representation                                                          *)
(*   - an optional field (Python Optional[int]) is <<>> for None and <<v>> *)
(*     for the value v;                                                    *)
(*   - a string field that is missing or empty is "";                      *)
(*   - a timestamp is the rank of its ISO-8601 string in the sort-key      *)
(*     order of the table: 1, 2, ... are well-formed strings, 0 is the     *)
(*     missing/empty string and a negative number is a string that         *)
(*     datetime.fromisoformat rejects;                                     *)
(*   - metadata is the set of its <<key, value>> pairs ({} for None and    *)
(*     for the empty dict, which Python treats alike in a condition);      *)
(*   - an average (a Python float quotient) is the exact fraction          *)
(*     <<numerator, denominator>>.                                         *)
(***************************************************************************)
EXTENDS Integers, Sequences, FiniteSets, TLC

\* Largest well-formed timestamp used by the requests.
MaxTime == 2

\* Largest number of items the events table holds.
MaxItems == 2

Agents == {"a", "b"}

Times == 1..MaxTime

None == <<>>

Some(v) == <<v>>

\* Python truthiness of an Optional[int]: None and 0 are false.
Truthy(opt) == opt # None /\ opt[1] # 0

AgentEvent(agent_id, timestamp, message_type, response_time_ms, token_count, user_feedback, metadata) ==
    [agent_id |-> agent_id, timestamp |-> timestamp,
     message_type |-> message_type, response_time_ms |-> response_time_ms,
     token_count |-> token_count, user_feedback |-> user_feedback,
     metadata |-> metadata]

valid_types ==
    {"user_message", "agent_response", "error", "feedback",
     "conversation_start", "conversation_end", "graph_step", "custom_metric"}

\* datetime.fromisoformat(timestamp.replace('Z', '+00:00')) does not raise.
fromisoformat(timestamp) == timestamp >= 1

\* validate_event whose feedback check excludes the upper end of the scale.
validate_event_feedback_below_5(event) ==
    IF event.agent_id = "" \/ event.timestamp = 0 \/ event.message_type = ""
    THEN FALSE
    ELSE IF ~fromisoformat(event.timestamp)
    THEN FALSE
    ELSE IF event.message_type \notin valid_types
    THEN FALSE
    ELSE IF Truthy(event.response_time_ms) /\ event.response_time_ms[1] < 0
    THEN FALSE
    ELSE IF Truthy(event.token_count) /\ event.token_count[1] < 0
    THEN FALSE
    ELSE IF Truthy(event.user_feedback)
            /\ ~(1 <= event.user_feedback[1] /\ event.user_feedback[1] < 5)
    THEN FALSE
    ELSE TRUE

validate_event(event) ==
    IF event.agent_id = "" \/ event.timestamp = 0 \/ event.message_type = ""
    THEN FALSE
    ELSE IF ~fromisoformat(event.timestamp)
    THEN FALSE
    ELSE IF event.message_type \notin valid_types
    THEN FALSE
    ELSE IF Truthy(event.response_time_ms) /\ event.response_time_ms[1] < 0
    THEN FALSE
    ELSE IF Truthy(event.token_count) /\ event.token_count[1] < 0
    THEN FALSE
    ELSE IF Truthy(event.user_feedback)
            /\ ~(1 <= event.user_feedback[1] /\ event.user_feedback[1] <= 5)
    THEN FALSE
    ELSE TRUE

(***************************************************************************)
(* The events table: one partition per agent_id, the items of a partition  *)
(* kept in sort-key (timestamp) order, one item per key.                   *)
(***************************************************************************)

\* put_item that writes the partition anew with the item alone.
PutItem_alone(items, item) == <<item>>

\* put_item that appends the item after the others.
PutItem_append(items, item) ==
    LET Other(x) == x.timestamp # item.timestamp
    IN  SelectSeq(items, Other) \o <<item>>

\* put_item that keeps the item already stored under the key.
PutItem_keep_first(items, item) ==
    LET Before(x) == x.timestamp <= item.timestamp
        After(x) == x.timestamp > item.timestamp
        Same(x) == x.timestamp = item.timestamp
    IN  IF SelectSeq(items, Same) # <<>>
        THEN items
        ELSE SelectSeq(items, Before) \o <<item>> \o SelectSeq(items, After)

\* put_item that loses the items stored after the key it writes.
PutItem_drop_after(items, item) ==
    LET Before(x) == x.timestamp < item.timestamp
    IN  SelectSeq(items, Before) \o <<item>>

\* put_item on one partition: an item with the same sort key is replaced.
PutItem(items, item) ==
    LET Before(x) == x.timestamp < item.timestamp
        After(x) == x.timestamp > item.timestamp
    IN  SelectSeq(items, Before) \o <<item>> \o SelectSeq(items, After)

\* between with the lower bound excluded.
between_exclusive_start(timestamp, start_time, end_time) ==
    start_time < timestamp /\ timestamp <= end_time

\* Key('timestamp').between(start_time, end_time): both bounds inclusive.
between(timestamp, start_time, end_time) ==
    start_time <= timestamp /\ timestamp <= end_time

\* DynamoDB refuses a key condition "BETWEEN lower AND upper" whose upper
\* bound is below its lower bound (ValidationException), so that query raises.
QueryRaises(start_time, end_time) == end_time < start_time

\* events_table.query(agent_id = .. & timestamp BETWEEN ..), ScanIndexForward.
Query(table, agent_id, start_time, end_time) ==
    LET InRange(x) == between(x.timestamp, start_time, end_time)
    IN  IF agent_id \in DOMAIN table
        THEN SelectSeq(table[agent_id], InRange)
        ELSE <<>>

RECURSIVE SumLen(_, _)
SumLen(table, agents) ==
    IF agents = {} THEN 0
    ELSE LET a == CHOOSE x \in agents : TRUE
         IN  Len(table[a]) + SumLen(table, agents \ {a})

ItemCount(table) == SumLen(table, DOMAIN table)

(***************************************************************************)
(* calculate_daily_metrics.  The two accumulations that the source leaves  *)
(* as "pass" under the comments "Accumulate for average calculation" and   *)
(* "Accumulate feedback scores" are total_response_time, and               *)
(* total_feedback_score with feedback_count, the names its average         *)
(* computation reads.                                                      *)
(***************************************************************************)

ZeroAverage == <<0, 1>>

AgentMetrics(agent_id) ==
    [agent_id |-> agent_id, total_messages |-> 0, total_responses |-> 0,
     total_errors |-> 0, average_response_time |-> ZeroAverage,
     total_tokens_used |-> 0, average_feedback_score |-> ZeroAverage,
     unique_users |-> 0]

ZeroAccumulators ==
    [total_messages |-> 0, total_responses |-> 0, total_errors |-> 0,
     total_tokens_used |-> 0, total_response_time |-> 0,
     total_feedback_score |-> 0, feedback_count |-> 0]

\* The loop body with errors added to the message count.
CountEvent_error_as_message(acc, event) ==
    IF event.message_type \in {"user_message", "error"}
    THEN [acc EXCEPT !.total_messages = @ + 1]
    ELSE IF event.message_type = "agent_response"
    THEN [acc EXCEPT
            !.total_responses = @ + 1,
            !.total_response_time =
                IF Truthy(event.response_time_ms)
                THEN @ + event.response_time_ms[1] ELSE @,
            !.total_tokens_used =
                IF Truthy(event.token_count)
                THEN @ + event.token_count[1] ELSE @]
    ELSE IF event.message_type = "feedback" /\ Truthy(event.user_feedback)
    THEN [acc EXCEPT !.total_feedback_score = @ + event.user_feedback[1],
                     !.feedback_count = @ + 1]
    ELSE acc

\* The body of "for event in events" for one event.
CountEvent(acc, event) ==
    IF event.message_type = "user_message"
    THEN [acc EXCEPT !.total_messages = @ + 1]
    ELSE IF event.message_type = "agent_response"
    THEN [acc EXCEPT
            !.total_responses = @ + 1,
            !.total_response_time =
                IF Truthy(event.response_time_ms)
                THEN @ + event.response_time_ms[1] ELSE @,
            !.total_tokens_used =
                IF Truthy(event.token_count)
                THEN @ + event.token_count[1] ELSE @]
    ELSE IF event.message_type = "error"
    THEN [acc EXCEPT !.total_errors = @ + 1]
    ELSE IF event.message_type = "feedback" /\ Truthy(event.user_feedback)
    THEN [acc EXCEPT !.total_feedback_score = @ + event.user_feedback[1],
                     !.feedback_count = @ + 1]
    ELSE acc

RECURSIVE CountEvents(_, _, _)
CountEvents(acc, events, i) ==
    IF i > Len(events) THEN acc
    ELSE CountEvents(CountEvent(acc, events[i]), events, i + 1)

\* event.metadata and "user_id" in event.metadata
HasUserId(event) == \E kv \in event.metadata : kv[1] = "user_id"

\* event.metadata["user_id"]
UserIdOf(event) == (CHOOSE kv \in event.metadata : kv[1] = "user_id")[2]

\* One entry per event that carries a user_id.
UserIds_per_event(events) ==
    {<<i, UserIdOf(events[i])>> :
        i \in {j \in DOMAIN events : HasUserId(events[j])}}

\* The set user_ids after the second "for event in events".
UserIds(events) ==
    {UserIdOf(events[i]) : i \in {j \in DOMAIN events : HasUserId(events[j])}}

AverageResponseTime(acc) ==
    IF acc.total_responses > 0
    THEN <<acc.total_response_time, acc.total_responses>>
    ELSE ZeroAverage

\* The feedback average without the feedback_count > 0 guard.
AverageFeedbackScore_unguarded(acc) ==
    <<acc.total_feedback_score, acc.feedback_count>>

AverageFeedbackScore(acc) ==
    IF acc.feedback_count > 0
    THEN <<acc.total_feedback_score, acc.feedback_count>>
    ELSE ZeroAverage

calculate_daily_metrics(agent_id, events) ==
    LET acc == CountEvents(ZeroAccumulators, events, 1)
    IN  [AgentMetrics(agent_id) EXCEPT
            !.total_messages = acc.total_messages,
            !.total_responses = acc.total_responses,
            !.total_errors = acc.total_errors,
            !.total_tokens_used = acc.total_tokens_used,
            !.average_response_time = AverageResponseTime(acc),
            !.average_feedback_score = AverageFeedbackScore(acc),
            !.unique_users = Cardinality(UserIds(events))]

\* events_table, request and response are the table and the last request
\* served with its answer; replaced is a history variable: the last put_item
\* found an item under the key it wrote.  metrics_table is the persisted
\* metrics snapshot of each agent and inflight the put requests that are
\* being served concurrently.
VARIABLES events_table, request, response, replaced, metrics_table, inflight,
          useAgentMetrics, useRecordAgentEvent, KPICards, Page,
          ChartAreaInteractive, setup_local_data, query_with_pagination

\* The state of the backend and its store.
server_vars ==
    <<events_table, request, response, replaced, metrics_table, inflight>>

\* The state of the dashboard's hooks and components and of the scripts, one
\* variable each, the fields named as the source names them.
client_vars ==
    <<useAgentMetrics, useRecordAgentEvent, KPICards, Page,
      ChartAreaInteractive, setup_local_data, query_with_pagination>>

vars == <<server_vars, client_vars>>

NoEvent == AgentEvent("", 0, "", None, None, None, {})

NoRequest ==
    [op |-> "none", event |-> NoEvent, agent_id |-> "", start_time |-> 0,
     end_time |-> 0, message_type |-> "", fail_at |-> 0]

NoResponse ==
    [status |-> 0, items |-> <<>>, metrics |-> AgentMetrics(""),
     agents |-> <<>>, series |-> <<>>, store_queries |-> 0]

(***************************************************************************)
(* The initial state of the hooks and components (their useState calls)    *)
(* and of the scripts before they run.  null is None.                      *)
(***************************************************************************)

\* useAgentMetrics: metrics null, loading true, error null.  `fetches` are
\* the fetchMetrics calls issued so far, in the order they were issued.
useAgentMetrics_useState ==
    [mounted |-> FALSE, agentId |-> "", metrics |-> None, loading |-> TRUE,
     error |-> None, fetches |-> <<>>]

\* useRecordAgentEvent: loading false, error null.  `calls` are the
\* recordEvent calls made so far, in the order they were made.
useRecordAgentEvent_useState ==
    [loading |-> FALSE, error |-> None, calls |-> <<>>]

\* KPICards: kpis [], loading true.  `deps` are the dependencies the effect
\* last ran for, `requests` the getKPIs calls in the order they were issued.
KPICards_useState ==
    [mounted |-> FALSE, kpis |-> <<>>, loading |-> TRUE, deps |-> <<>>,
     requests |-> <<>>]

\* A value of a Filters field: the key is absent from the object, or holds
\* undefined, a string or an array of strings.
Absent == <<"absent">>

Undefined == <<"undefined">>

Str(string) == <<"string", string>>

Arr(array) == <<"array", array>>

FilterKeys ==
    {"timeRange", "startDate", "endDate", "agents", "models", "errorTypes",
     "traceId", "status"}

defaultFilters ==
    [k \in FilterKeys |->
       CASE k = "timeRange" -> Str("24h")
         [] k \in {"agents", "models", "errorTypes", "status"} -> Arr(<<>>)
         [] OTHER -> Absent]

\* The URL's query string: the value of each parameter, None when the URL
\* has no such parameter.
NoSearchParams == [k \in FilterKeys |-> None]

\* Page: filters defaultFilters, availableModels []; DashboardFilters:
\* traceIdInput filters.traceId || ''; the router's current query string;
\* `called` is the handler that ran last.
Page_useState ==
    [filters |-> defaultFilters, availableModels |-> <<>>,
     traceIdInput |-> "", searchParams |-> NoSearchParams,
     called |-> "none"]

\* ChartAreaInteractive: data [], loading true, availableAgents [],
\* availableModels [], hasLoadedData false.  `loads` are the runs of the
\* loading effect, each with the hasLoadedData its closure captured and, once
\* its requests have resolved, their results.
ChartAreaInteractive_useState ==
    [data |-> <<>>, loading |-> TRUE, availableAgents |-> <<>>,
     availableModels |-> <<>>, hasLoadedData |-> FALSE, loads |-> <<>>]

\* setup-local-data.sh before main runs.  `waits` are the wait_for_service
\* calls that returned, `status` the exit status of the script.
setup_local_data_start ==
    [pc |-> "main", service_name |-> "", i |-> 0, waits |-> <<>>,
     copied |-> FALSE, ran |-> FALSE, status |-> None]

\* No call of query_with_pagination is running.
query_with_pagination_idle ==
    [pc |-> "idle", agent_id |-> "", start_time |-> 0, end_time |-> 0,
     items |-> <<>>, LastEvaluatedKey |-> None, queries |-> 0]

Init ==
    /\ events_table = [a \in Agents |-> <<>>]
    /\ request = NoRequest
    /\ response = NoResponse
    /\ replaced = FALSE
    /\ metrics_table = [a \in Agents |-> None]
    /\ inflight = <<>>
    /\ useAgentMetrics = useAgentMetrics_useState
    /\ useRecordAgentEvent = useRecordAgentEvent_useState
    /\ KPICards = KPICards_useState
    /\ Page = Page_useState
    /\ ChartAreaInteractive = ChartAreaInteractive_useState
    /\ setup_local_data = setup_local_data_start
    /\ query_with_pagination = query_with_pagination_idle

(***************************************************************************)
(* Requests.                                                               *)
(***************************************************************************)

UserId(u) == {<<"user_id", u>>}

SessionOnly == {<<"session_id", "s1">>}

\* message_type, response_time_ms, token_count, user_feedback, metadata
Payloads ==
    { <<"user_message", None, None, None, UserId("u1")>>,
      <<"agent_response", Some(200), Some(5), None, {}>>,
      <<"agent_response", None, None, None, UserId("u1")>>,
      <<"error", None, None, None, SessionOnly>>,
      <<"feedback", None, None, Some(1), UserId("u1")>>,
      <<"feedback", None, None, Some(5), {}>>,
      <<"feedback", None, None, None, {}>>,
      <<"feedback", None, None, Some(0), {}>>,
      <<"conversation_start", None, None, None, UserId("u2")>> }

\* The events written for the second agent.
OtherAgentPayloads == { <<"user_message", None, None, None, UserId("u1")>> }

PayloadsOf(agent_id) == IF agent_id = "a" THEN Payloads ELSE OtherAgentPayloads

\* Events with all required fields and a known message type.
KeyedEvents ==
    UNION { { AgentEvent(a, t, p[1], p[2], p[3], p[4], p[5]) :
                t \in Times, p \in PayloadsOf(a) } : a \in Agents }

\* Events with a missing or malformed field or a number out of its range.
MalformedEvents ==
    { AgentEvent("", 1, "user_message", None, None, None, {}),
      AgentEvent("a", 0, "user_message", None, None, None, {}),
      AgentEvent("a", -1, "user_message", None, None, None, {}),
      AgentEvent("a", 1, "", None, None, None, {}),
      AgentEvent("a", 1, "bogus", None, None, None, {}),
      AgentEvent("a", 1, "agent_response", Some(-1), None, None, {}),
      AgentEvent("a", 1, "agent_response", Some(100), Some(-1), None, {}),
      AgentEvent("a", 1, "feedback", None, None, Some(6), {}),
      AgentEvent("a", 1, "feedback", None, None, Some(-1), {}),
      AgentEvent("a", 1, "user_message", None, None, Some(6), {}) }

EventInputs == KeyedEvents \cup MalformedEvents

HasKey(table, agent_id, timestamp) ==
    /\ agent_id \in DOMAIN table
    /\ \E i \in DOMAIN table[agent_id] : table[agent_id][i].timestamp = timestamp

\* put(event): validation (ValidationError, 400), then put_item into the
\* agent's partition.
Put(event) ==
    /\ request' = [NoRequest EXCEPT !.op = "put", !.event = event]
    /\ IF validate_event(event)
       THEN /\ \/ ItemCount(events_table) < MaxItems
               \/ HasKey(events_table, event.agent_id, event.timestamp)
            /\ events_table' =
                  [events_table EXCEPT
                     ![event.agent_id] = PutItem(@, event)]
            /\ response' = [NoResponse EXCEPT !.status = 200]
            /\ replaced' =
                  HasKey(events_table, event.agent_id, event.timestamp)
       ELSE /\ response' = [NoResponse EXCEPT !.status = 400]
            /\ replaced' = FALSE
            /\ UNCHANGED events_table
    /\ UNCHANGED <<metrics_table, inflight, client_vars>>

\* queryByAgentAndRange(agent_id, start, end)
QueryByAgentAndRange(agent_id, start_time, end_time) ==
    /\ request' = [NoRequest EXCEPT !.op = "query", !.agent_id = agent_id,
                                    !.start_time = start_time,
                                    !.end_time = end_time]
    /\ response' =
          IF QueryRaises(start_time, end_time)
          THEN [NoResponse EXCEPT !.status = 500]
          ELSE [NoResponse EXCEPT
                  !.status = 200,
                  !.items = Query(events_table, agent_id, start_time, end_time)]
    /\ replaced' = FALSE
    /\ UNCHANGED <<events_table, metrics_table, inflight, client_vars>>

\* The Aggregator over the events of one agent in a range.
GetMetrics(agent_id, start_time, end_time) ==
    /\ request' = [NoRequest EXCEPT !.op = "metrics", !.agent_id = agent_id,
                                    !.start_time = start_time,
                                    !.end_time = end_time]
    /\ response' =
          IF QueryRaises(start_time, end_time)
          THEN [NoResponse EXCEPT !.status = 500]
          ELSE [NoResponse EXCEPT
                  !.status = 200,
                  !.metrics =
                     calculate_daily_metrics(
                        agent_id,
                        Query(events_table, agent_id, start_time, end_time))]
    /\ replaced' = FALSE
    /\ UNCHANGED <<events_table, metrics_table, inflight, client_vars>>

Next ==
    \/ \E event \in EventInputs : Put(event)
    \/ \E a \in Agents, s \in Times, e \in Times :
          QueryByAgentAndRange(a, s, e)
    \/ \E a \in Agents, s \in Times, e \in Times : GetMetrics(a, s, e)

Spec == Init /\ [][Next]_vars

(***************************************************************************)
(* The HTTP surface: POST /agents/{agent_id}/events, GET /agents and       *)
(* GET /agents/{agent_id}/metrics, and the scheduled aggregation job that  *)
(* persists a metrics snapshot.                                            *)
(***************************************************************************)

\* The reads of the store a metrics request can make.
MaxReads == 3

\* The agent identifiers in ascending order.
AgentOrder == <<"a", "b">>

\* An agent is known once an event is stored under its identifier.
HasEvents_always(table, agent_id) == TRUE

HasEvents(table, agent_id) ==
    agent_id \in DOMAIN table /\ table[agent_id] # <<>>

\* GET /agents that lists every identifier it was ever asked about.
list_agents_all(table) == AgentOrder

\* GET /agents: the distinct agent identifiers of the events table, ordered.
list_agents(table) ==
    LET Known(a) == HasEvents(table, a)
    IN  SelectSeq(AgentOrder, Known)

\* A failed store query that is issued a second time.
StoreQueries_retry_once(needed, fail_at) ==
    IF fail_at \in 1..needed THEN fail_at + 1 ELSE needed

\* The number of store queries of a request that needs `needed` reads when
\* its fail_at-th read fails (0: none fails): a failure ends the request.
StoreQueries(needed, fail_at) ==
    IF fail_at \in 1..needed THEN fail_at ELSE needed

\* The metrics retrieval flow: the backend queries the metrics table and
\* aggregates the events of the range only if it holds no item for the agent.
ReadMetrics(table, snapshots, agent_id, start_time, end_time) ==
    IF snapshots[agent_id] # None
    THEN snapshots[agent_id][1]
    ELSE calculate_daily_metrics(
            agent_id, Query(table, agent_id, start_time, end_time))

ApiPayloads ==
    { <<"user_message", None, None, None, UserId("u1")>>,
      <<"agent_response", Some(200), Some(5), None, {}>>,
      <<"feedback", None, None, Some(5), {}>> }

ApiEvents ==
    { AgentEvent(a, t, p[1], p[2], p[3], p[4], p[5]) :
        a \in Agents, t \in Times, p \in ApiPayloads }
    \cup { AgentEvent("a", 1, "feedback", None, None, Some(6), {}) }

\* POST /agents/{agent_id}/events: the body's agent_id must match the path
\* and the event must validate (400 otherwise); then put_item.
RecordAgentEvent(agent_id, event) ==
    /\ request' = [NoRequest EXCEPT !.op = "post", !.agent_id = agent_id,
                                    !.event = event]
    /\ IF event.agent_id = agent_id /\ validate_event(event)
       THEN /\ \/ ItemCount(events_table) < MaxItems
               \/ HasKey(events_table, event.agent_id, event.timestamp)
            /\ events_table' =
                  [events_table EXCEPT
                     ![event.agent_id] = PutItem(@, event)]
            /\ response' = [NoResponse EXCEPT !.status = 200]
            /\ replaced' =
                  HasKey(events_table, event.agent_id, event.timestamp)
       ELSE /\ response' = [NoResponse EXCEPT !.status = 400]
            /\ replaced' = FALSE
            /\ UNCHANGED events_table
    /\ UNCHANGED <<metrics_table, inflight, client_vars>>

\* GET /agents
GetAgents ==
    /\ request' = [NoRequest EXCEPT !.op = "agents"]
    /\ response' = [NoResponse EXCEPT !.status = 200,
                                      !.agents = list_agents(events_table)]
    /\ replaced' = FALSE
    /\ UNCHANGED <<events_table, metrics_table, inflight, client_vars>>

\* GET /agents/{agent_id}/metrics.  The first read finds whether the agent
\* has events (404 if not), the second queries the metrics table, the third
\* reads the events of the range when the metrics table has no item; the
\* fail_at-th read fails in the store (0: none), as does a range query that
\* the store refuses, and a failed read ends the request with 500.
GetAgentMetrics(agent_id, start_time, end_time, fail_at) ==
    LET known == HasEvents(events_table, agent_id)
        cached == metrics_table[agent_id] # None
        needed == IF ~known THEN 1 ELSE IF cached THEN 2 ELSE 3
        failed == \/ fail_at \in 1..needed
                  \/ known /\ ~cached /\ QueryRaises(start_time, end_time)
    IN  /\ request' = [NoRequest EXCEPT !.op = "agent_metrics",
                                        !.agent_id = agent_id,
                                        !.start_time = start_time,
                                        !.end_time = end_time,
                                        !.fail_at = fail_at]
        /\ response' =
              IF failed
              THEN [NoResponse EXCEPT
                      !.status = 500,
                      !.store_queries = StoreQueries(needed, fail_at)]
              ELSE IF ~known
              THEN [NoResponse EXCEPT !.status = 404, !.store_queries = needed]
              ELSE [NoResponse EXCEPT
                      !.status = 200,
                      !.store_queries = needed,
                      !.metrics = ReadMetrics(events_table, metrics_table,
                                              agent_id, start_time, end_time)]
        /\ replaced' = FALSE
        /\ UNCHANGED <<events_table, metrics_table, inflight, client_vars>>

\* The scheduled aggregation job: query the agent's events, aggregate them
\* and store the result in the metrics table.
AggregateMetrics(agent_id) ==
    /\ metrics_table' =
          [metrics_table EXCEPT
             ![agent_id] =
                Some(calculate_daily_metrics(agent_id, events_table[agent_id]))]
    /\ metrics_table' # metrics_table
    /\ request' = [NoRequest EXCEPT !.op = "job", !.agent_id = agent_id]
    /\ response' = NoResponse
    /\ replaced' = FALSE
    /\ UNCHANGED <<events_table, inflight, client_vars>>

NextApi ==
    \/ \E a \in Agents, event \in ApiEvents : RecordAgentEvent(a, event)
    \/ GetAgents
    \/ \E a \in Agents, s \in Times, e \in Times, f \in 0..MaxReads :
          GetAgentMetrics(a, s, e, f)

SpecApi == Init /\ [][NextApi]_vars

\* The events of the agent whose snapshot is persisted.
SnapshotEvents == {event \in ApiEvents : event.agent_id = "a"}

NextSnapshot ==
    \/ \E event \in SnapshotEvents : RecordAgentEvent("a", event)
    \/ AggregateMetrics("a")
    \/ GetAgentMetrics("a", 1, MaxTime, 0)

SpecSnapshot == Init /\ [][NextSnapshot]_vars

(***************************************************************************)
(* Time series: one point per calendar date of the requested date range,   *)
(* each the daily metrics of the agent for that date.                      *)
(***************************************************************************)

\* The calendar dates of the time axis, and the timestamps of one date.
MaxDays == 2

TimesPerDay == 2

Dates == 1..MaxDays

DateOf(timestamp) == (timestamp - 1) \div TimesPerDay + 1

DayStart(date) == (date - 1) * TimesPerDay + 1

DayEnd(date) == date * TimesPerDay

\* Events of a date read up to the first timestamp of the next date.
query_events_by_date_into_next_day(table, agent_id, date) ==
    Query(table, agent_id, DayStart(date), DayEnd(date) + 1)

\* Query all events for the day.
query_events_by_date(table, agent_id, date) ==
    Query(table, agent_id, DayStart(date), DayEnd(date))

SeriesPoint(table, agent_id, date) ==
    [date |-> date,
     metrics |-> calculate_daily_metrics(
                    agent_id, query_events_by_date(table, agent_id, date))]

\* The points of the dates start_date..end_date in date order.
series(table, agent_id, start_date, end_date) ==
    [i \in 1..(end_date - start_date + 1) |->
       SeriesPoint(table, agent_id, start_date + i - 1)]

SeriesPayloads ==
    { <<"user_message", None, None, None, UserId("u1")>>,
      <<"agent_response", Some(200), Some(5), None, {}>>,
      <<"error", None, None, None, {}>> }

SeriesEvents ==
    { AgentEvent("a", t, p[1], p[2], p[3], p[4], p[5]) :
        t \in DayStart(1)..DayEnd(MaxDays), p \in SeriesPayloads }

\* GET /metrics/series?start_date&end_date&agents
GetSeries(agent_id, start_date, end_date) ==
    /\ request' = [NoRequest EXCEPT !.op = "series", !.agent_id = agent_id,
                                    !.start_time = start_date,
                                    !.end_time = end_date]
    /\ response' =
          [NoResponse EXCEPT
             !.status = 200,
             !.series = series(events_table, agent_id, start_date, end_date)]
    /\ replaced' = FALSE
    /\ UNCHANGED <<events_table, metrics_table, inflight, client_vars>>

NextSeries ==
    \/ \E event \in SeriesEvents : RecordAgentEvent("a", event)
    \/ \E s \in Dates, e \in Dates : GetSeries("a", s, e)

SpecSeries == Init /\ [][NextSeries]_vars

(***************************************************************************)
(* The MessageTypeIndex of the events table: the items of every agent      *)
(* under (message_type, timestamp).  The index is read as a view of the    *)
(* table; items of one timestamp come in the order of their agents.        *)
(***************************************************************************)

RECURSIVE FlattenSeq(_)
FlattenSeq(seqs) ==
    IF seqs = <<>> THEN <<>> ELSE Head(seqs) \o FlattenSeq(Tail(seqs))

MessageTypeIndex(table, message_type) ==
    LET At(a, t) ==
           LET Match(x) == x.timestamp = t /\ x.message_type = message_type
           IN  SelectSeq(table[a], Match)
    IN  FlattenSeq([t \in 1..MaxTime |->
                      FlattenSeq([k \in DOMAIN AgentOrder |->
                                    At(AgentOrder[k], t)])])

\* events_table.query(IndexName='MessageTypeIndex', message_type = type AND
\* timestamp BETWEEN start_time AND end_time)
QueryIndex(table, message_type, start_time, end_time) ==
    LET InRange(x) == between(x.timestamp, start_time, end_time)
    IN  SelectSeq(MessageTypeIndex(table, message_type), InRange)

IndexTypes == {"user_message", "agent_response", "error"}

QueryByMessageType(message_type, start_time, end_time) ==
    /\ request' = [NoRequest EXCEPT !.op = "query_type",
                                    !.message_type = message_type,
                                    !.start_time = start_time,
                                    !.end_time = end_time]
    /\ response' =
          IF QueryRaises(start_time, end_time)
          THEN [NoResponse EXCEPT !.status = 500]
          ELSE [NoResponse EXCEPT
                  !.status = 200,
                  !.items = QueryIndex(events_table, message_type,
                                       start_time, end_time)]
    /\ replaced' = FALSE
    /\ UNCHANGED <<events_table, metrics_table, inflight, client_vars>>

NextIndex ==
    \/ \E event \in ApiEvents : Put(event)
    \/ \E a \in Agents, s \in Times, e \in Times :
          QueryByAgentAndRange(a, s, e)
    \/ \E m \in IndexTypes, s \in Times, e \in Times :
          QueryByMessageType(m, s, e)

SpecIndex == Init /\ [][NextIndex]_vars

(***************************************************************************)
(* Concurrent event ingestion: every request in flight is at its own       *)
(* position of the ingestion flow (received, validated, stored), and the   *)
(* steps of different requests interleave freely.  put_item is the one     *)
(* step that touches the store, and the store executes it atomically.      *)
(***************************************************************************)

\* The requests that can be in flight together.
MaxRequests == 2

ConcurrentEvents ==
    { AgentEvent(a, t, p[1], p[2], p[3], p[4], p[5]) :
        a \in Agents, t \in Times, p \in OtherAgentPayloads }
    \cup { AgentEvent("a", t, "agent_response", Some(200), Some(5), None, {}) :
             t \in Times }
    \cup { AgentEvent("a", 1, "feedback", None, None, Some(6), {}) }

\* 1. the agent sends event data to the events endpoint.
Receive(event) ==
    /\ Len(inflight) < MaxRequests
    /\ inflight' = Append(inflight, [event |-> event, pc |-> "received"])
    /\ UNCHANGED <<events_table, request, response, replaced, metrics_table,
                   client_vars>>

\* 2. the backend validates the data.
Validate(i) ==
    /\ inflight[i].pc = "received"
    /\ inflight' =
          [inflight EXCEPT
             ![i].pc = IF validate_event(inflight[i].event)
                       THEN "validated" ELSE "rejected"]
    /\ UNCHANGED <<events_table, request, response, replaced, metrics_table,
                   client_vars>>

\* 3. the backend stores the raw event in the events table, and
\* 4. returns the success response.
Store(i) ==
    /\ inflight[i].pc = "validated"
    /\ events_table' =
          [events_table EXCEPT
             ![inflight[i].event.agent_id] = PutItem(@, inflight[i].event)]
    /\ inflight' = [inflight EXCEPT ![i].pc = "stored"]
    /\ UNCHANGED <<request, response, replaced, metrics_table, client_vars>>

NextConcurrent ==
    \/ \E event \in ConcurrentEvents : Receive(event)
    \/ \E i \in DOMAIN inflight : Validate(i)
    \/ \E i \in DOMAIN inflight : Store(i)

SpecConcurrent == Init /\ [][NextConcurrent]_vars

(***************************************************************************)
(* The dashboard page: its filters, the URL query string DashboardFilters  *)
(* keeps beside them, and the date window each component derives from the  *)
(* filters.  Times are hours, a date is the day an hour falls on.          *)
(***************************************************************************)

\* JavaScript truthiness of a field value: undefined and '' are falsy, an
\* array is truthy whatever its length.
ToBoolean(value) ==
    \/ value[1] = "array"
    \/ value[1] = "string" /\ value[2] # ""

\* value is null or undefined (the left side of ??).
Nullish(value) == value = Absent \/ value = Undefined

RECURSIVE join(_)
join(array) ==
    IF array = <<>> THEN ""
    ELSE IF Len(array) = 1 THEN array[1]
    ELSE array[1] \o "," \o join(Tail(array))

\* { ...filters, ...updates }
Spread(filters, updates) ==
    [k \in FilterKeys |->
       IF k \in DOMAIN updates THEN updates[k] ELSE filters[k]]

\* The loop of updateFilters over Object.entries(newFilters): set the
\* parameter of a truthy value (a non-empty one for an array), delete the
\* parameter otherwise; a key the object does not have is not visited.
UpdatedParams(params, newFilters) ==
    [k \in FilterKeys |->
       IF newFilters[k] = Absent
       THEN params[k]
       ELSE IF ToBoolean(newFilters[k])
               /\ (IF newFilters[k][1] = "array"
                   THEN Len(newFilters[k][2]) > 0 ELSE TRUE)
       THEN Some(IF newFilters[k][1] = "array"
                 THEN join(newFilters[k][2]) ELSE newFilters[k][2])
       ELSE None]

\* updateFilters(updates): onFiltersChange(newFilters), then router.push of
\* the updated query string.
updateFilters(page, updates) ==
    [page EXCEPT
       !.filters = Spread(page.filters, updates),
       !.searchParams =
          UpdatedParams(page.searchParams, Spread(page.filters, updates)),
       !.called = "updateFilters"]

\* clearAllFilters: setTraceIdInput(''), onFiltersChange(defaultFilters),
\* router.push(window.location.pathname).
clearAllFilters(page) ==
    [page EXCEPT
       !.traceIdInput = "",
       !.filters = defaultFilters,
       !.searchParams = NoSearchParams,
       !.called = "clearAllFilters"]

activeFilterCount(filters) ==
    (IF Len(filters.agents[2]) > 0 THEN 1 ELSE 0)
    + (IF Len(filters.models[2]) > 0 THEN 1 ELSE 0)
    + (IF Len(filters.errorTypes[2]) > 0 THEN 1 ELSE 0)
    + (IF ToBoolean(filters.status) /\ Len(filters.status[2]) > 0
       THEN 1 ELSE 0)
    + (IF ToBoolean(filters.traceId) THEN 1 ELSE 0)

timeRangeOptions == {"1h", "24h", "7d", "30d", "custom"}

DateInputs == {"", "2024-01-01"}

TraceIdInputs == {"", "trace-1"}

\* The hour of a day's midnight and the hours the clock can show: the first
\* and the last hour of a day.
Midnight == 100 * 24

Nows == {Midnight, Midnight + 23}

\* toISOString().slice(0, 10)
toISODate(time) == <<"date", time \div 24>>

\* KPICards' window: the switch on timeRange, then filters.startDate ??
\* and filters.endDate ??.
KPICards_window(filters, now) ==
    LET start == CASE filters.timeRange = Str("1h") -> now - 1
                   [] filters.timeRange = Str("7d") -> now - 7 * 24
                   [] filters.timeRange = Str("30d") -> now - 30 * 24
                   [] OTHER -> now - 24
    IN  [startDate |-> IF Nullish(filters.startDate)
                       THEN toISODate(start) ELSE filters.startDate,
         endDate |-> IF Nullish(filters.endDate)
                     THEN toISODate(now) ELSE filters.endDate]

\* deriveDates of LogsTable.
deriveDates(filters, now) ==
    LET start == CASE filters.timeRange = Str("1h") -> now - 1
                   [] filters.timeRange = Str("7d") -> now - 7 * 24
                   [] filters.timeRange = Str("30d") -> now - 30 * 24
                   [] OTHER -> now - 24
    IN  [startDate |-> IF Nullish(filters.startDate)
                       THEN toISODate(start) ELSE filters.startDate,
         endDate |-> IF Nullish(filters.endDate)
                     THEN toISODate(now) ELSE filters.endDate]

\* deriveDates of ConversationsTable: its switch has no case for '1h'.
deriveDates_ConversationsTable(filters, now) ==
    LET start == CASE filters.timeRange = Str("7d") -> now - 7 * 24
                   [] filters.timeRange = Str("30d") -> now - 30 * 24
                   [] OTHER -> now - 24
    IN  [startDate |-> IF Nullish(filters.startDate)
                       THEN toISODate(start) ELSE filters.startDate,
         endDate |-> IF Nullish(filters.endDate)
                     THEN toISODate(now) ELSE filters.endDate]

\* ChartAreaInteractive's window: the filter dates only for a custom range
\* with both dates, else now minus the days of timeRange (90 by default).
ChartAreaInteractive_window(filters, now) ==
    IF /\ filters.timeRange = Str("custom")
       /\ ToBoolean(filters.startDate)
       /\ ToBoolean(filters.endDate)
    THEN [startDate |-> filters.startDate, endDate |-> filters.endDate]
    ELSE LET hours == CASE filters.timeRange = Str("30d") -> 30 * 24
                        [] filters.timeRange = Str("7d") -> 7 * 24
                        [] filters.timeRange = Str("1h") -> 1
                        [] filters.timeRange = Str("24h") -> 24
                        [] OTHER -> 90 * 24
         IN  [startDate |-> toISODate(now - hours),
              endDate |-> toISODate(now)]

agentOptions == {"agent-1", "agent-2"}

\* What a step of Page and DashboardFilters leaves alone.
page_frame ==
    <<server_vars, useAgentMetrics, useRecordAgentEvent, KPICards,
      ChartAreaInteractive, setup_local_data, query_with_pagination>>

\* The time range select: updateFilters({ timeRange: value }).
onTimeRangeChange(value) ==
    /\ Page' = updateFilters(Page, [timeRange |-> Str(value)])
    /\ UNCHANGED page_frame

\* The date inputs, rendered for the custom range.
onStartDateChange(value) ==
    /\ Page.filters.timeRange = Str("custom")
    /\ Page' = updateFilters(Page, [startDate |-> Str(value)])
    /\ UNCHANGED page_frame

onEndDateChange(value) ==
    /\ Page.filters.timeRange = Str("custom")
    /\ Page' = updateFilters(Page, [endDate |-> Str(value)])
    /\ UNCHANGED page_frame

includes(array, item) == \E i \in DOMAIN array : array[i] = item

\* An agent's checkbox: append the agent when checked, filter it out when
\* unchecked.
onAgentCheckedChange(agent) ==
    LET agents == Page.filters.agents[2]
        Other(a) == a # agent
        newAgents == IF ~includes(agents, agent)
                     THEN Append(agents, agent)
                     ELSE SelectSeq(agents, Other)
    IN  /\ Page' = updateFilters(Page, [agents |-> Arr(newAgents)])
        /\ UNCHANGED page_frame

\* Typing in the trace-id input: setTraceIdInput(e.target.value).
onTraceIdInputChange(value) ==
    /\ value # Page.traceIdInput
    /\ Page' = [Page EXCEPT !.traceIdInput = value,
                            !.called = "setTraceIdInput"]
    /\ UNCHANGED page_frame

\* updateFilters({ traceId: traceIdInput || undefined })
handleTraceIdSubmit ==
    /\ Page' = updateFilters(Page,
                             [traceId |-> IF Page.traceIdInput # ""
                                          THEN Str(Page.traceIdInput)
                                          ELSE Undefined])
    /\ UNCHANGED page_frame

\* The X beside the trace id, rendered when filters.traceId is set.
onTraceIdClear ==
    /\ ToBoolean(Page.filters.traceId)
    /\ Page' = updateFilters([Page EXCEPT !.traceIdInput = ""],
                             [traceId |-> Undefined])
    /\ UNCHANGED page_frame

\* The "Clear all" button, rendered when activeFilterCount > 0.
onClearAll ==
    /\ activeFilterCount(Page.filters) > 0
    /\ Page' = clearAllFilters(Page)
    /\ UNCHANGED page_frame

\* The page is loaded anew under its current URL: the state of Page and
\* DashboardFilters is that of their useState calls.
PageLoad ==
    /\ Page.called # "load"
    /\ Page' = [Page_useState EXCEPT !.searchParams = Page.searchParams,
                                     !.called = "load"]
    /\ UNCHANGED page_frame

NextFilters ==
    \/ \E value \in timeRangeOptions : onTimeRangeChange(value)
    \/ \E value \in DateInputs : onStartDateChange(value)
    \/ \E value \in DateInputs : onEndDateChange(value)
    \/ \E agent \in agentOptions : onAgentCheckedChange(agent)
    \/ \E value \in TraceIdInputs : onTraceIdInputChange(value)
    \/ handleTraceIdSubmit
    \/ onTraceIdClear
    \/ onClearAll
    \/ PageLoad

SpecFilters == Init /\ [][NextFilters]_vars

\* The dependencies of KPICards' effect.
KPICards_deps(filters) ==
    <<filters.timeRange, filters.startDate, filters.endDate,
      join(filters.agents[2])>>

\* The body of GET /dashboard/kpis for the given parameters.
getKPIs(params) == [kpis |-> <<[title |-> "Total Calls", of |-> params]>>]

\* KPICards' effect, run at mount and when a dependency changed:
\* setLoading(true), then api.getKPIs({ startDate, endDate, agents }).
KPICards_useEffect(now) ==
    /\ ~KPICards.mounted \/ KPICards.deps # KPICards_deps(Page.filters)
    /\ Len(KPICards.requests) < MaxRequests
    /\ KPICards' =
          [KPICards EXCEPT
             !.mounted = TRUE,
             !.deps = KPICards_deps(Page.filters),
             !.loading = TRUE,
             !.requests =
                Append(@, [params |-> KPICards_window(Page.filters, now),
                           state |-> "pending"])]
    /\ UNCHANGED <<server_vars, useAgentMetrics, useRecordAgentEvent, Page,
                   ChartAreaInteractive, setup_local_data,
                   query_with_pagination>>

\* .then((res) => setKpis(mapped)).finally(() => setLoading(false))
getKPIs_resolve(i) ==
    /\ KPICards.requests[i].state = "pending"
    /\ KPICards' =
          [KPICards EXCEPT
             !.kpis = getKPIs(KPICards.requests[i].params).kpis,
             !.loading = FALSE,
             !.requests[i].state = "resolved"]
    /\ UNCHANGED <<server_vars, useAgentMetrics, useRecordAgentEvent, Page,
                   ChartAreaInteractive, setup_local_data,
                   query_with_pagination>>

\* The promise rejects: only .finally(() => setLoading(false)) runs.
getKPIs_reject(i) ==
    /\ KPICards.requests[i].state = "pending"
    /\ KPICards' =
          [KPICards EXCEPT
             !.loading = FALSE,
             !.requests[i].state = "rejected"]
    /\ UNCHANGED <<server_vars, useAgentMetrics, useRecordAgentEvent, Page,
                   ChartAreaInteractive, setup_local_data,
                   query_with_pagination>>

NextKPICards ==
    \/ \E value \in timeRangeOptions : onTimeRangeChange(value)
    \/ \E value \in DateInputs : onStartDateChange(value)
    \/ \E now \in Nows : KPICards_useEffect(now)
    \/ \E i \in DOMAIN KPICards.requests : getKPIs_resolve(i)
    \/ \E i \in DOMAIN KPICards.requests : getKPIs_reject(i)

SpecKPICards == Init /\ [][NextKPICards]_vars

(***************************************************************************)
(* ChartAreaInteractive.  A load is the chain getAgents, getSeries per      *)
(* agent, Promise.all, then the callback that builds the chart data.        *)
(***************************************************************************)
ChartDates == 1..2

\* The model names of a series point, in String.prototype sort order.
ModelOrder == <<"gpt-3.5", "gpt-4">>

ModelLists == {<<>>, <<"gpt-4">>, <<"gpt-4", "gpt-3.5">>}

\* The items of a /dashboard/series response for one agent.
SeriesItems ==
    {<<>>} \cup
    {<<[date |-> date, calls |-> 1, visitors |-> 1, models |-> models]>> :
        date \in ChartDates, models \in ModelLists}

\* The agent lists GET /agents answers with.
AgentLists == {<<>>, <<"agent-1">>, <<"agent-1", "agent-2">>}

\* What Promise.all resolves to: one { agent, data } per agent.
SeriesResults(agents) ==
    {[i \in DOMAIN agents |-> [agent |-> agents[i], data |-> items[i]]] :
        items \in [DOMAIN agents -> SeriesItems]}

Range(seq) == {seq[i] : i \in DOMAIN seq}

\* Array.from(set).sort()
sort(set) == LET Has(model) == model \in set IN SelectSeq(ModelOrder, Has)

\* The dateMap of the callback as an array sorted by date: a point is
\* created at the first item of its date with models [], and only the
\* agent's total usage is written into it.
chartData(results) ==
    LET dates == {date \in ChartDates :
                     \E i \in DOMAIN results :
                        \E j \in DOMAIN results[i].data :
                           results[i].data[j].date = date}
        usage(date) ==
           UNION {{<<results[i].agent,
                     results[i].data[j].calls + results[i].data[j].visitors>> :
                      j \in {k \in DOMAIN results[i].data :
                                results[i].data[k].date = date}} :
                  i \in DOMAIN results}
        point(date) == [date |-> date, calls |-> 0, errors |-> 0,
                        visitors |-> 0, models |-> <<>>,
                        usage |-> usage(date)]
        InDates(date) == date \in dates
    IN  [i \in 1..Cardinality(dates) |->
            point(SelectSeq(<<1, 2>>, InDates)[i])]

\* The models the callback extracts: those of the chart's points.
modelsArray(data) ==
    sort(UNION {Range(data[i].models) : i \in DOMAIN data})

chart_frame ==
    <<server_vars, useAgentMetrics, useRecordAgentEvent, KPICards,
      setup_local_data, query_with_pagination>>

\* The loading effect, run at mount and when filters or timeRange change:
\* setLoading(true), then the requests are issued.
loadData ==
    /\ Len(ChartAreaInteractive.loads) < MaxRequests
    /\ ChartAreaInteractive' =
          [ChartAreaInteractive EXCEPT
             !.loading = TRUE,
             !.loads = Append(@, [hasLoadedData |->
                                     ChartAreaInteractive.hasLoadedData,
                                  state |-> "pending",
                                  results |-> <<>>])]
    /\ UNCHANGED <<chart_frame, Page>>

\* The requests of load i resolved with `results`: the callback, the
\* finally block, and the effect on [hasLoadedData, availableModels,
\* onModelsUpdate] that runs after the render.
loadData_then(i, results) ==
    LET load == ChartAreaInteractive.loads[i]
        data == chartData(results)
        models == modelsArray(data)
        \* onModelsUpdate is called by the callback after an earlier load,
        \* and by the effect, which sees hasLoadedData true and a new
        \* availableModels array.
        notify == \/ models # <<>> /\ load.hasLoadedData
                  \/ models # <<>>
    IN  /\ load.state = "pending"
        /\ ChartAreaInteractive' =
              [ChartAreaInteractive EXCEPT
                 !.data = data,
                 !.availableAgents =
                    [j \in DOMAIN results |-> results[j].agent],
                 !.availableModels = models,
                 !.hasLoadedData = TRUE,
                 !.loading = FALSE,
                 !.loads[i].state = "resolved",
                 !.loads[i].results = results]
        /\ Page' = IF notify
                   THEN [Page EXCEPT !.availableModels = models,
                                     !.called = "handleModelsUpdate"]
                   ELSE Page
        /\ UNCHANGED chart_frame

\* A request of load i rejected: the catch and finally blocks.
loadData_catch(i) ==
    /\ ChartAreaInteractive.loads[i].state = "pending"
    /\ ChartAreaInteractive' =
          [ChartAreaInteractive EXCEPT
             !.data = <<>>,
             !.availableAgents = <<>>,
             !.availableModels = <<>>,
             !.loading = FALSE,
             !.loads[i].state = "rejected"]
    /\ UNCHANGED <<chart_frame, Page>>

\* The requests of a pending load settle.
loadData_settle ==
    \E i \in DOMAIN ChartAreaInteractive.loads :
       \/ \E agents \in AgentLists :
             \E results \in SeriesResults(agents) : loadData_then(i, results)
       \/ loadData_catch(i)

NextChart ==
    \/ loadData
    \/ \E i \in DOMAIN ChartAreaInteractive.loads :
          \E agents \in AgentLists :
             \E results \in SeriesResults(agents) : loadData_then(i, results)
    \/ \E i \in DOMAIN ChartAreaInteractive.loads : loadData_catch(i)

SpecChart == Init /\ [][NextChart]_vars

\* Every request of the chart is answered or fails.
SpecChartFair == SpecChart /\ WF_vars(loadData_settle)

(***************************************************************************)
(* scripts/setup-local-data.sh.                                            *)
(***************************************************************************)
max_attempts == 30

\* The services main waits for, in its order.
Services == <<"DynamoDB Local", "Backend API">>

\* for ((i=1; i<=max_attempts; i++)) with one attempt too many.
loop_condition_one_more(i) == i <= max_attempts + 1

\* for ((i=1; i<=max_attempts; i++))
loop_condition(i) == i <= max_attempts

script_frame ==
    <<server_vars, useAgentMetrics, useRecordAgentEvent, KPICards, Page,
      ChartAreaInteractive, query_with_pagination>>

\* main calls wait_for_service for the next service: i=1.
wait_for_service ==
    /\ setup_local_data.pc = "main"
    /\ Len(setup_local_data.waits) < Len(Services)
    /\ setup_local_data' =
          [setup_local_data EXCEPT
             !.service_name = Services[Len(setup_local_data.waits) + 1],
             !.i = 1,
             !.pc = IF loop_condition(1) THEN "curl" ELSE "return 1"]
    /\ UNCHANGED script_frame

\* curl -s "$url" succeeds: return 0, and main goes on.
curl_succeeds ==
    /\ setup_local_data.pc = "curl"
    /\ setup_local_data' =
          [setup_local_data EXCEPT
             !.waits = Append(@, [service_name |->
                                     setup_local_data.service_name,
                                  attempts |-> setup_local_data.i,
                                  curl |-> "succeeded",
                                  returned |-> 0]),
             !.pc = IF Len(setup_local_data.waits) + 1 < Len(Services)
                    THEN "main" ELSE "docker cp"]
    /\ UNCHANGED script_frame

\* curl -s "$url" fails: echo -n ".", sleep 1.
curl_fails ==
    /\ setup_local_data.pc = "curl"
    /\ setup_local_data' = [setup_local_data EXCEPT !.pc = "sleep"]
    /\ UNCHANGED script_frame

\* The sleep is over: i++, and the loop's condition is tested.
sleep ==
    /\ setup_local_data.pc = "sleep"
    /\ setup_local_data' =
          [setup_local_data EXCEPT
             !.i = @ + 1,
             !.pc = IF loop_condition(setup_local_data.i + 1)
                    THEN "curl" ELSE "return 1"]
    /\ UNCHANGED script_frame

\* The loop ended: wait_for_service returns 1 and main exits 1.
wait_for_service_return_1 ==
    /\ setup_local_data.pc = "return 1"
    /\ setup_local_data' =
          [setup_local_data EXCEPT
             !.waits = Append(@, [service_name |->
                                     setup_local_data.service_name,
                                  attempts |-> setup_local_data.i - 1,
                                  curl |-> "failed",
                                  returned |-> 1]),
             !.status = Some(1),
             !.pc = "exit"]
    /\ UNCHANGED script_frame

\* docker cp of the setup script; under set -e its failure ends the script
\* with a non-zero status.
docker_cp(succeeds) ==
    /\ setup_local_data.pc = "docker cp"
    /\ setup_local_data' =
          IF succeeds
          THEN [setup_local_data EXCEPT !.copied = TRUE,
                                        !.pc = "docker-compose exec"]
          ELSE [setup_local_data EXCEPT !.status = Some(1), !.pc = "exit"]
    /\ UNCHANGED script_frame

\* docker-compose exec of the setup script, then the closing messages.
docker_compose_exec(succeeds) ==
    /\ setup_local_data.pc = "docker-compose exec"
    /\ setup_local_data' =
          [setup_local_data EXCEPT
             !.ran = TRUE,
             !.status = IF succeeds THEN Some(0) ELSE Some(1),
             !.pc = "exit"]
    /\ UNCHANGED script_frame

NextSetup ==
    \/ wait_for_service
    \/ curl_succeeds
    \/ curl_fails
    \/ sleep
    \/ wait_for_service_return_1
    \/ \E succeeds \in BOOLEAN : docker_cp(succeeds)
    \/ \E succeeds \in BOOLEAN : docker_compose_exec(succeeds)

SpecSetup == Init /\ [][NextSetup]_vars

(***************************************************************************)
(* query_with_pagination over the events table filled by                   *)
(* batch_write_events.  A page holds at most Limit items; the store may end *)
(* a page earlier, and says with LastEvaluatedKey that it stopped.          *)
(***************************************************************************)
Limit == 1

PaginationEvents ==
    { AgentEvent(a, t, "user_message", None, None, None, {}) :
        a \in Agents, t \in Times }

pagination_frame ==
    <<request, response, replaced, metrics_table, inflight, useAgentMetrics,
      useRecordAgentEvent, KPICards, Page, ChartAreaInteractive,
      setup_local_data>>

\* batch.put_item(Item=event), before any query of the events.
batch_put_item(event) ==
    /\ query_with_pagination.pc = "idle"
    /\ \/ ItemCount(events_table) < MaxItems
       \/ HasKey(events_table, event.agent_id, event.timestamp)
    /\ events_table' =
          [events_table EXCEPT ![event.agent_id] = PutItem(@, event)]
    /\ UNCHANGED <<pagination_frame, query_with_pagination>>

\* The items of the key condition after ExclusiveStartKey, ascending.
AfterKey(table, agent_id, start_time, end_time, ExclusiveStartKey) ==
    LET After(x) == \/ ExclusiveStartKey = None
                    \/ x.timestamp > ExclusiveStartKey[1]
    IN  SelectSeq(Query(table, agent_id, start_time, end_time), After)

\* One table.query response that evaluated n items of `rest`: the page,
\* and LastEvaluatedKey when items are left or (last) the page ended with
\* the last item without the store having looked further.
Page_of(rest, n, last) ==
    LET Items == SubSeq(rest, 1, IF n < Len(rest) THEN n ELSE Len(rest))
    IN  [Items |-> Items,
         LastEvaluatedKey |->
            IF n < Len(rest) \/ (n = Len(rest) /\ last)
            THEN Some(Items[Len(Items)].timestamp)
            ELSE None]

\* The call and its first table.query.
query_with_pagination_call(agent_id, start_time, end_time, n, last) ==
    /\ query_with_pagination.pc \in {"idle", "returned", "raised"}
    /\ query_with_pagination' =
          IF QueryRaises(start_time, end_time)
          THEN [query_with_pagination_idle EXCEPT
                  !.pc = "raised", !.agent_id = agent_id,
                  !.start_time = start_time, !.end_time = end_time,
                  !.queries = 1]
          ELSE LET page == Page_of(AfterKey(events_table, agent_id,
                                            start_time, end_time, None),
                                   n, last)
               IN  [pc |-> "while", agent_id |-> agent_id,
                    start_time |-> start_time, end_time |-> end_time,
                    items |-> page.Items,
                    LastEvaluatedKey |-> page.LastEvaluatedKey,
                    queries |-> 1]
    /\ UNCHANGED <<pagination_frame, events_table>>

\* while 'LastEvaluatedKey' in response: the next table.query, extended
\* onto items.
query_with_pagination_while(n, last) ==
    /\ query_with_pagination.pc = "while"
    /\ query_with_pagination.LastEvaluatedKey # None
    /\ LET page == Page_of(AfterKey(events_table,
                                    query_with_pagination.agent_id,
                                    query_with_pagination.start_time,
                                    query_with_pagination.end_time,
                                    query_with_pagination.LastEvaluatedKey),
                           n, last)
       IN  query_with_pagination' =
              [query_with_pagination EXCEPT
                 !.items = @ \o page.Items,
                 !.LastEvaluatedKey = page.LastEvaluatedKey,
                 !.queries = @ + 1]
    /\ UNCHANGED <<pagination_frame, events_table>>

\* The response has no LastEvaluatedKey: return items.
query_with_pagination_return ==
    /\ query_with_pagination.pc = "while"
    /\ query_with_pagination.LastEvaluatedKey = None
    /\ query_with_pagination' = [query_with_pagination EXCEPT !.pc = "returned"]
    /\ UNCHANGED <<pagination_frame, events_table>>

NextPagination ==
    \/ \E event \in PaginationEvents : batch_put_item(event)
    \/ \E a \in Agents, s \in Times, e \in Times, n \in 1..Limit,
          last \in BOOLEAN : query_with_pagination_call(a, s, e, n, last)
    \/ \E n \in 1..Limit, last \in BOOLEAN : query_with_pagination_while(n, last)
    \/ query_with_pagination_return

SpecPagination == Init /\ [][NextPagination]_vars

(***************************************************************************)
(* The dashboard's data hooks.  An API call that was issued stays pending  *)
(* until its promise resolves or rejects; the calls of one hook settle in  *)
(* any order.  A setState call takes effect at once.                       *)
(***************************************************************************)

\* The error apiCall throws when the response is not ok or fetch fails.
ApiError == Some("API call failed")

\* The body of GET /agents/{agentId}/metrics.
getAgentMetrics(agentId) == [metrics |-> [agent_id |-> agentId]]

\* useAgentMetrics: the effect runs at mount and when agentId changes; it
\* returns at once for an empty agentId, else calls fetchMetrics, which
\* sets loading and awaits api.getAgentMetrics.
useAgentMetrics_useEffect(agentId) ==
    /\ ~useAgentMetrics.mounted \/ agentId # useAgentMetrics.agentId
    /\ IF agentId = ""
       THEN useAgentMetrics' =
               [useAgentMetrics EXCEPT !.mounted = TRUE, !.agentId = agentId]
       ELSE /\ Len(useAgentMetrics.fetches) < MaxRequests
            /\ useAgentMetrics' =
                  [useAgentMetrics EXCEPT
                     !.mounted = TRUE,
                     !.agentId = agentId,
                     !.loading = TRUE,
                     !.fetches = Append(@, [agentId |-> agentId,
                                            state |-> "pending"])]
    /\ UNCHANGED <<server_vars, useRecordAgentEvent, KPICards, Page,
                   ChartAreaInteractive, setup_local_data,
                   query_with_pagination>>

\* await api.getAgentMetrics resolves: setMetrics(data.metrics), and
\* finally setLoading(false).
fetchMetrics_resolve(i) ==
    /\ useAgentMetrics.fetches[i].state = "pending"
    /\ useAgentMetrics' =
          [useAgentMetrics EXCEPT
             !.metrics =
                Some(getAgentMetrics(useAgentMetrics.fetches[i].agentId).metrics),
             !.loading = FALSE,
             !.fetches[i].state = "resolved"]
    /\ UNCHANGED <<server_vars, useRecordAgentEvent, KPICards, Page,
                   ChartAreaInteractive, setup_local_data,
                   query_with_pagination>>

\* await api.getAgentMetrics rejects: catch setError(err), and finally
\* setLoading(false).
fetchMetrics_reject(i) ==
    /\ useAgentMetrics.fetches[i].state = "pending"
    /\ useAgentMetrics' =
          [useAgentMetrics EXCEPT
             !.error = ApiError,
             !.loading = FALSE,
             !.fetches[i].state = "rejected"]
    /\ UNCHANGED <<server_vars, useRecordAgentEvent, KPICards, Page,
                   ChartAreaInteractive, setup_local_data,
                   query_with_pagination>>

\* recordEvent that leaves the error of an earlier call in place.
recordEvent_try_keeps_error(hook) == [hook EXCEPT !.loading = TRUE]

\* The start of recordEvent's try block: setLoading(true); setError(null).
recordEvent_try(hook) == [hook EXCEPT !.loading = TRUE, !.error = None]

NewCall ==
    [state |-> "pending", returned |-> None, loading |-> None,
     error |-> None, failed_during |-> FALSE]

\* recordEvent(agentId, event) up to its await of api.recordAgentEvent.
recordEvent ==
    /\ Len(useRecordAgentEvent.calls) < MaxRequests
    /\ useRecordAgentEvent' =
          [recordEvent_try(useRecordAgentEvent) EXCEPT
             !.calls = Append(@, NewCall)]
    /\ UNCHANGED <<server_vars, useAgentMetrics, KPICards, Page,
                   ChartAreaInteractive, setup_local_data,
                   query_with_pagination>>

\* The await resolves: return true, and finally setLoading(false).  The
\* call records what it returned and the loading and error it left.
recordEvent_resolve(i) ==
    /\ useRecordAgentEvent.calls[i].state = "pending"
    /\ useRecordAgentEvent' =
          [useRecordAgentEvent EXCEPT
             !.loading = FALSE,
             !.calls[i] = [@ EXCEPT !.state = "resolved",
                                    !.returned = Some(TRUE),
                                    !.loading = Some(FALSE),
                                    !.error = Some(useRecordAgentEvent.error)]]
    /\ UNCHANGED <<server_vars, useAgentMetrics, KPICards, Page,
                   ChartAreaInteractive, setup_local_data,
                   query_with_pagination>>

\* The await throws: catch setError(err), return false, and finally
\* setLoading(false).  The calls still pending have seen another call fail.
recordEvent_throw(i) ==
    /\ useRecordAgentEvent.calls[i].state = "pending"
    /\ useRecordAgentEvent' =
          [useRecordAgentEvent EXCEPT
             !.loading = FALSE,
             !.error = ApiError,
             !.calls =
                [j \in DOMAIN @ |->
                   IF j = i
                   THEN [@[j] EXCEPT !.state = "threw",
                                     !.returned = Some(FALSE),
                                     !.loading = Some(FALSE),
                                     !.error = Some(ApiError)]
                   ELSE IF @[j].state = "pending"
                   THEN [@[j] EXCEPT !.failed_during = TRUE]
                   ELSE @[j]]]
    /\ UNCHANGED <<server_vars, useAgentMetrics, KPICards, Page,
                   ChartAreaInteractive, setup_local_data,
                   query_with_pagination>>

fetchMetrics_settle ==
    \E i \in DOMAIN useAgentMetrics.fetches :
       fetchMetrics_resolve(i) \/ fetchMetrics_reject(i)

NextHooks ==
    \/ \E agentId \in agentOptions \cup {""} :
          useAgentMetrics_useEffect(agentId)
    \/ \E i \in DOMAIN useAgentMetrics.fetches : fetchMetrics_resolve(i)
    \/ \E i \in DOMAIN useAgentMetrics.fetches : fetchMetrics_reject(i)
    \/ recordEvent
    \/ \E i \in DOMAIN useRecordAgentEvent.calls : recordEvent_resolve(i)
    \/ \E i \in DOMAIN useRecordAgentEvent.calls : recordEvent_throw(i)

SpecHooks == Init /\ [][NextHooks]_vars

\* Every issued API call eventually resolves or rejects.
SpecHooksFair == SpecHooks /\ WF_vars(fetchMetrics_settle)

(***************************************************************************)
(* Vocabulary of the properties, stated over the table and the last        *)
(* request and response without the operators of the implementation.       *)
(***************************************************************************)

\* The Event invariant of the data model: required fields present, numbers
\* non-negative when present, feedback score in [1,5] when present.
WellFormed(event) ==
    /\ event.agent_id # ""
    /\ event.timestamp >= 1
    /\ event.message_type \in valid_types
    /\ event.response_time_ms # None => event.response_time_ms[1] >= 0
    /\ event.token_count # None => event.token_count[1] >= 0
    /\ event.user_feedback # None => event.user_feedback[1] \in 1..5

Occurrences(items, item) == Cardinality({i \in DOMAIN items : items[i] = item})

\* The stored events of an agent with start <= timestamp <= end.
StoredInRange(agent_id, start_time, end_time) ==
    {events_table[agent_id][i] :
       i \in {j \in DOMAIN events_table[agent_id] :
                /\ start_time <= events_table[agent_id][j].timestamp
                /\ events_table[agent_id][j].timestamp <= end_time}}

\* The stored events the last request ranges over.
Requested == StoredInRange(request.agent_id, request.start_time, request.end_time)

OfType(events, message_type) == {x \in events : x.message_type = message_type}

MetricsAnswered == request.op = "metrics" /\ response.status = 200

\* C1: a well-formed event that was put is contained exactly once in the
\* answer of the next queryByAgentAndRange of its agent whose range covers
\* its timestamp, whatever the table held before.
C1_PutThenQueryContainsOnce ==
    [][(/\ request.op = "put"
        /\ WellFormed(request.event)
        /\ request'.op = "query"
        /\ request'.agent_id = request.event.agent_id
        /\ request'.start_time <= request.event.timestamp
        /\ request.event.timestamp <= request'.end_time)
       => /\ response'.status = 200
          /\ Occurrences(response'.items, request.event) = 1]_vars

\* A query answered with two events over a range that covers both slots.
C1_Witness ==
    /\ request.op = "query"
    /\ response.status = 200
    /\ Len(response.items) = 2
    /\ \A i \in DOMAIN response.items : WellFormed(response.items[i])

\* C2: the metrics of a range count in total_messages, total_responses and
\* total_errors exactly the stored user_message, agent_response and error
\* events of the agent in the range; other message types count in none.
C2_CountsByMessageType ==
    MetricsAnswered =>
       /\ response.metrics.total_messages =
             Cardinality(OfType(Requested, "user_message"))
       /\ response.metrics.total_responses =
             Cardinality(OfType(Requested, "agent_response"))
       /\ response.metrics.total_errors =
             Cardinality(OfType(Requested, "error"))

\* Metrics over one error and one event of a type that is not counted.
C2_Witness ==
    /\ MetricsAnswered
    /\ Cardinality(Requested) = 2
    /\ response.metrics.total_errors = 1
    /\ response.metrics.total_messages = 0
    /\ response.metrics.total_responses = 0

\* The agent_response events that carry a response_time_ms.
Timed(events) ==
    {x \in OfType(events, "agent_response") : x.response_time_ms # None}

\* The feedback events that carry a score.
Scored(events) == {x \in OfType(events, "feedback") : x.user_feedback # None}

RECURSIVE SumResponseTimes(_)
SumResponseTimes(events) ==
    IF events = {} THEN 0
    ELSE LET x == CHOOSE y \in events : TRUE
         IN  x.response_time_ms[1] + SumResponseTimes(events \ {x})

\* The fraction avg equals numerator / denominator.
IsQuotient(avg, numerator, denominator) ==
    avg[2] # 0 /\ avg[1] * denominator = numerator * avg[2]

IsZero(avg) == avg[2] # 0 /\ avg[1] = 0

\* C3: average_response_time is the sum of response_time_ms over the
\* agent_response events that carry one, divided by the number of those
\* events; a response without a time counts in total_responses only.
C3_AverageOverTimedResponses ==
    (MetricsAnswered /\ Timed(Requested) # {}) =>
       /\ response.metrics.total_responses =
             Cardinality(OfType(Requested, "agent_response"))
       /\ IsQuotient(response.metrics.average_response_time,
                     SumResponseTimes(Timed(Requested)),
                     Cardinality(Timed(Requested)))

DistinctUsers(events) ==
    {kv[2] : kv \in {x \in UNION {e.metadata : e \in events} :
                        x[1] = "user_id"}}

\* C5: unique_users is the number of distinct metadata.user_id values over
\* the events of the range, of every message type.
C5_UniqueUsers ==
    MetricsAnswered =>
       response.metrics.unique_users = Cardinality(DistinctUsers(Requested))

\* Two events of different types that share one user_id.
C5_Witness ==
    /\ MetricsAnswered
    /\ Cardinality(Requested) = 2
    /\ \A x \in Requested : \E kv \in x.metadata : kv[1] = "user_id"
    /\ \E x, y \in Requested : x.message_type # y.message_type
    /\ response.metrics.unique_users = 1

\* C6: put answers ValidationError for every event whose feedback score is
\* present and outside [1,5], and accepts a well-formed event whose score
\* is 1 or 5.
C6_FeedbackRangeEnforced ==
    request.op = "put" =>
       /\ (/\ request.event.user_feedback # None
           /\ request.event.user_feedback[1] \notin 1..5)
          => response.status = 400
       /\ (/\ WellFormed(request.event)
           /\ request.event.user_feedback \in {Some(1), Some(5)})
          => response.status = 200

\* A required field is missing or a present number is out of its range.
Rejectable(event) ==
    \/ event.agent_id = ""
    \/ event.timestamp = 0
    \/ event.message_type = ""
    \/ event.response_time_ms # None /\ event.response_time_ms[1] < 0
    \/ event.token_count # None /\ event.token_count[1] < 0
    \/ event.user_feedback # None /\ event.user_feedback[1] \notin 1..5

\* C7: put answers ValidationError when a required field is missing or a
\* present number violates its range, and a rejected put leaves the table
\* as it was.
C7_RejectedNotStored ==
    [][request'.op = "put" =>
         /\ Rejectable(request'.event) => response'.status = 400
         /\ response'.status = 400 => events_table' = events_table]_vars

\* C8: queryByAgentAndRange answers, without error, exactly the stored
\* events of the agent with start <= timestamp <= end, each once; the
\* empty list when the range is empty or nothing matches.
C8_QueryExactlyRange ==
    request.op = "query" =>
       /\ response.status = 200
       /\ {response.items[i] : i \in DOMAIN response.items} = Requested
       /\ Len(response.items) = Cardinality(Requested)

\* C9: the answer of queryByAgentAndRange is in ascending timestamp order.
C9_QueryAscending ==
    (request.op = "query" /\ response.status = 200) =>
       \A i, j \in DOMAIN response.items :
          i < j => response.items[i].timestamp <= response.items[j].timestamp

\* A query answered with events of two different timestamps.
C9_Witness ==
    /\ request.op = "query"
    /\ response.status = 200
    /\ \E i, j \in DOMAIN response.items :
          response.items[i].timestamp # response.items[j].timestamp

\* C10: a put of a well-formed event right after a put under the same
\* (agent_id, timestamp) succeeds and replaces the stored item; the next
\* covering query answers exactly one event of that timestamp, the one of
\* the second put.
C10_SameKeyOverwrites ==
    [][/\ (/\ request.op = "put"
           /\ response.status = 200
           /\ request'.op = "put"
           /\ WellFormed(request'.event)
           /\ request'.event.agent_id = request.event.agent_id
           /\ request'.event.timestamp = request.event.timestamp)
          => (response'.status = 200 /\ replaced')
       /\ (/\ request.op = "put"
           /\ replaced
           /\ request'.op = "query"
           /\ request'.agent_id = request.event.agent_id
           /\ request'.start_time <= request.event.timestamp
           /\ request.event.timestamp <= request'.end_time)
          => /\ response'.status = 200
             /\ \A i \in DOMAIN response'.items :
                   response'.items[i].timestamp = request.event.timestamp
                      => response'.items[i] = request.event
             /\ Cardinality({i \in DOMAIN response'.items :
                   response'.items[i].timestamp = request.event.timestamp}) = 1
      ]_vars

\* The last put replaced an item stored under its key.
C10_Witness ==
    /\ request.op = "put"
    /\ response.status = 200
    /\ replaced
    /\ WellFormed(request.event)

\* The items of all partitions of a table.
ItemsOf(table) ==
    UNION {{table[a][i] : i \in DOMAIN table[a]} : a \in DOMAIN table}

\* C11 as claimed: an event that is stored is stored with the same field
\* values after every further request, puts included.
C11_NeverMutated ==
    [][ItemsOf(events_table) \subseteq ItemsOf(events_table')]_vars

\* C11 amended: a stored event stays stored with the same field values
\* unless the request is an accepted put under its own (agent_id, timestamp).
C11_MutatedOnlyBySameKeyPut ==
    [][\A x \in ItemsOf(events_table) :
          \/ x \in ItemsOf(events_table')
          \/ /\ request'.op = "put"
             /\ response'.status = 200
             /\ request'.event.agent_id = x.agent_id
             /\ request'.event.timestamp = x.timestamp]_vars

\* A put under a new key was accepted into a partition that held an item.
C11_Witness ==
    /\ request.op = "put"
    /\ response.status = 200
    /\ ~replaced
    /\ Len(events_table[request.event.agent_id]) = 2

\* C18: every stored event has an agent identifier, a timestamp and a
\* message type, non-negative numbers and a feedback score in [1,5].
C18_StoredEventsWellFormed ==
    \A x \in ItemsOf(events_table) : WellFormed(x)

AgentMetricsAsked == request.op = "agent_metrics"

\* The reads the last metrics request needs: whether the agent has events,
\* the metrics table, and the events of the range if that table has no item.
ReadsNeeded ==
    IF events_table[request.agent_id] = <<>> THEN 1
    ELSE IF metrics_table[request.agent_id] # None THEN 2
    ELSE 3

\* C12: GET /agents/{agent_id}/metrics answers 404 for an agent under whose
\* identifier no event is stored, whatever the store holds for other agents
\* (the store answering the read).
C12_UnknownAgentNotFound ==
    (/\ AgentMetricsAsked
     /\ request.fail_at = 0
     /\ events_table[request.agent_id] = <<>>)
    => response.status = 404

\* 404 for one agent while the store holds events of the other.
C12_Witness ==
    /\ AgentMetricsAsked
    /\ response.status = 404
    /\ ItemCount(events_table) >= 1

\* C13: GET /agents returns a list in which every agent identifier that has
\* a stored event appears exactly once and no other identifier appears; on
\* an empty store the list is empty.
C13_AgentsListedOnce ==
    request.op = "agents" =>
       /\ response.status = 200
       /\ \A a \in Agents :
             Occurrences(response.agents, a) =
                IF events_table[a] # <<>> THEN 1 ELSE 0
       /\ \A i \in DOMAIN response.agents : response.agents[i] \in Agents
       /\ ItemCount(events_table) = 0 => response.agents = <<>>

\* A list of one agent while the other agent has no event.
C13_Witness ==
    /\ request.op = "agents"
    /\ Len(response.agents) = 1
    /\ \E a \in Agents : events_table[a] = <<>>

C14_WitnessMismatch ==
    /\ request.op = "post"
    /\ response.status = 400
    /\ WellFormed(request.event)
    /\ request.event.agent_id # request.agent_id

C16_RecomputedOnRead ==
    (AgentMetricsAsked /\ response.status = 200) =>
       response.metrics =
          calculate_daily_metrics(
             request.agent_id,
             Query(events_table, request.agent_id,
                   request.start_time, request.end_time))

AllCompleted ==
    \A i \in DOMAIN inflight : inflight[i].pc \in {"stored", "rejected"}

DistinctKeys ==
    \A i, j \in DOMAIN inflight :
       (/\ inflight[i].event.agent_id = inflight[j].event.agent_id
        /\ inflight[i].event.timestamp = inflight[j].event.timestamp)
       => i = j

Accepted == {i \in DOMAIN inflight : inflight[i].pc = "stored"}

SeriesAnswered == request.op = "series" /\ response.status = 200

\* The stored events of the agent of the last request on a calendar date.
EventsOn(date) ==
    {x \in ItemsOf(events_table) :
       x.agent_id = request.agent_id /\ DateOf(x.timestamp) = date}

RECURSIVE SumSeq(_)
SumSeq(numbers) ==
    IF numbers = <<>> THEN 0 ELSE Head(numbers) + SumSeq(Tail(numbers))

\* The aggregation of the whole requested date range in one piece.
WholeRange ==
    calculate_daily_metrics(
       request.agent_id,
       Query(events_table, request.agent_id,
             DayStart(request.start_time), DayEnd(request.end_time)))

\* C19: the series has one bucket per calendar date of the requested range,
\* so every event of the range falls in exactly one bucket, that of its
\* date; each bucket counts the messages, responses and errors of its date,
\* and each count summed over the buckets is the count of the whole range.
C19_SeriesBucketsByDate ==
    SeriesAnswered =>
       LET points == response.series
       IN  /\ \A d \in request.start_time..request.end_time :
                 \A x \in EventsOn(d) :
                    Cardinality({i \in DOMAIN points : points[i].date = d}) = 1
           /\ \A i \in DOMAIN points :
                 /\ points[i].date \in request.start_time..request.end_time
                 /\ points[i].metrics.total_messages =
                       Cardinality(OfType(EventsOn(points[i].date),
                                          "user_message"))
                 /\ points[i].metrics.total_responses =
                       Cardinality(OfType(EventsOn(points[i].date),
                                          "agent_response"))
                 /\ points[i].metrics.total_errors =
                       Cardinality(OfType(EventsOn(points[i].date), "error"))
           /\ SumSeq([i \in DOMAIN points |->
                        points[i].metrics.total_messages]) =
                 WholeRange.total_messages
           /\ SumSeq([i \in DOMAIN points |->
                        points[i].metrics.total_responses]) =
                 WholeRange.total_responses
           /\ SumSeq([i \in DOMAIN points |->
                        points[i].metrics.total_errors]) =
                 WholeRange.total_errors

\* A series of two dates: a message on the first, an error on the second,
\* the error at the first timestamp of its date.
C19_Witness ==
    /\ SeriesAnswered
    /\ Len(response.series) = 2
    /\ response.series[1].metrics.total_messages = 1
    /\ response.series[2].metrics.total_errors = 1
    /\ \E x \in EventsOn(2) : x.timestamp = DayStart(2)

\* The stored events of every agent of the type and range of the last
\* request.
RequestedOfType ==
    {x \in ItemsOf(events_table) :
       /\ x.message_type = request.message_type
       /\ request.start_time <= x.timestamp
       /\ x.timestamp <= request.end_time}

\* C20: queryByMessageType returns exactly the stored events of every agent
\* of the given type with start <= timestamp <= end, each once, in
\* ascending timestamp order.
C20_QueryByTypeExactly ==
    request.op = "query_type" =>
       /\ response.status = 200
       /\ {response.items[i] : i \in DOMAIN response.items} = RequestedOfType
       /\ Len(response.items) = Cardinality(RequestedOfType)
       /\ \A i, j \in DOMAIN response.items :
             i < j => response.items[i].timestamp <= response.items[j].timestamp

\* The same for the queries the store answers.
QueryByTypeAnsweredExactly ==
    (request.op = "query_type" /\ response.status = 200) =>
       /\ {response.items[i] : i \in DOMAIN response.items} = RequestedOfType
       /\ Len(response.items) = Cardinality(RequestedOfType)
       /\ \A i, j \in DOMAIN response.items :
             i < j => response.items[i].timestamp <= response.items[j].timestamp

\* An accepted put is visible to the next query by its message type whose
\* range covers its timestamp.
PutVisibleByType ==
    [][(/\ request.op = "put"
        /\ response.status = 200
        /\ request'.op = "query_type"
        /\ request'.message_type = request.event.message_type
        /\ request'.start_time <= request.event.timestamp
        /\ request.event.timestamp <= request'.end_time)
       => Occurrences(response'.items, request.event) = 1]_vars

AllFetchesResolved ==
    /\ useAgentMetrics.fetches # <<>>
    /\ \A i \in DOMAIN useAgentMetrics.fetches :
          useAgentMetrics.fetches[i].state = "resolved"

LastFetch == useAgentMetrics.fetches[Len(useAgentMetrics.fetches)]

\* C22: once all issued fetches of useAgentMetrics have completed, the
\* metrics the hook holds are those returned for the most recently
\* requested agentId, in whatever order the responses arrived.
C22_LatestAgentWins ==
    AllFetchesResolved =>
       useAgentMetrics.metrics = Some(getAgentMetrics(LastFetch.agentId).metrics)

\* C24: whenever the most recent fetch of useAgentMetrics has succeeded and
\* loading is false, error is null.
C24_ErrorClearedBySuccess ==
    (/\ useAgentMetrics.fetches # <<>>
     /\ LastFetch.state = "resolved"
     /\ ~useAgentMetrics.loading)
    => useAgentMetrics.error = None

Settled(call) == call.state \in {"resolved", "threw"}

C28_LoadingEventuallyFalse ==
    useAgentMetrics.mounted ~> ~useAgentMetrics.loading

\* C23: KPICards' loading is true whenever a KPI request it issued is
\* still in flight, so the cards are not shown before the later of two
\* overlapping requests has completed.
C23_LoadingWhileInFlight ==
    (\E i \in DOMAIN KPICards.requests :
        KPICards.requests[i].state = "pending")
    => KPICards.loading

\* The window that follows from timeRange and the current time alone.
WindowOf(timeRange, now) ==
    LET hours == CASE timeRange = Str("1h") -> 1
                   [] timeRange = Str("24h") -> 24
                   [] timeRange = Str("7d") -> 7 * 24
                   [] timeRange = Str("30d") -> 30 * 24
                   [] OTHER -> 0
    IN  [startDate |-> <<"date", (now - hours) \div 24>>,
         endDate |-> <<"date", now \div 24>>]

\* C25: when filters.timeRange is not 'custom', the window KPICards,
\* LogsTable and ConversationsTable send is the one derived from timeRange
\* and the current time alone, the window ChartAreaInteractive uses; dates
\* left in the filters by an earlier custom selection are not sent.
C25_WindowFromTimeRange ==
    Page.filters.timeRange # Str("custom") =>
       \A now \in Nows :
          /\ KPICards_window(Page.filters, now) =
                WindowOf(Page.filters.timeRange, now)
          /\ deriveDates(Page.filters, now) =
                WindowOf(Page.filters.timeRange, now)
          /\ deriveDates_ConversationsTable(Page.filters, now) =
                WindowOf(Page.filters.timeRange, now)
          /\ ChartAreaInteractive_window(Page.filters, now) =
                WindowOf(Page.filters.timeRange, now)

\* The same for LogsTable and the chart alone, while the filters hold no
\* dates of a custom selection.
WindowFromTimeRangeWithoutDates ==
    (/\ Page.filters.timeRange # Str("custom")
     /\ Page.filters.startDate = Absent
     /\ Page.filters.endDate = Absent) =>
       \A now \in Nows :
          /\ KPICards_window(Page.filters, now) =
                WindowOf(Page.filters.timeRange, now)
          /\ deriveDates(Page.filters, now) =
                WindowOf(Page.filters.timeRange, now)
          /\ ChartAreaInteractive_window(Page.filters, now) =
                WindowOf(Page.filters.timeRange, now)

\* A field's value is a non-empty string or a non-empty array.
NonEmpty(value) ==
    \/ value[1] = "string" /\ value[2] # ""
    \/ value[1] = "array" /\ value[2] # <<>>

\* C26: after every updateFilters and clearAllFilters call the URL has a
\* parameter for a filter field exactly when the field's value is
\* non-empty, the parameter of an array being its items comma-joined, and
\* after clearAllFilters the filters equal defaultFilters and the trace-id
\* input is empty.
C26_UrlInStepWithFilters ==
    [][Page'.called \in {"updateFilters", "clearAllFilters"} =>
         /\ \A k \in FilterKeys :
               /\ Page'.searchParams[k] # None <=> NonEmpty(Page'.filters[k])
               /\ (Page'.searchParams[k] # None
                    /\ Page'.filters[k][1] = "array")
                     => Page'.searchParams[k] = Some(join(Page'.filters[k][2]))
         /\ Page'.called = "clearAllFilters" =>
               /\ Page'.filters = defaultFilters
               /\ Page'.traceIdInput = ""]_vars

\* The model names in the points of the series responses of a load.
ResponseModels(results) ==
    UNION {UNION {Range(results[i].data[j].models) :
                     j \in DOMAIN results[i].data} :
              i \in DOMAIN results}

\* Load i resolved with responses that hold model names.
ResolvedWithModels(i) ==
    /\ ChartAreaInteractive.loads[i].state = "resolved"
    /\ ResponseModels(ChartAreaInteractive.loads[i].results) # {}

\* C21: when the series responses of ChartAreaInteractive hold points with
\* non-empty models, it eventually calls onModelsUpdate with the sorted
\* distinct model names, so that Page's availableModels becomes that list.
C21_ModelsReachPage ==
    (\E i \in DOMAIN ChartAreaInteractive.loads : ResolvedWithModels(i))
    ~> (\E i \in DOMAIN ChartAreaInteractive.loads :
           /\ ResolvedWithModels(i)
           /\ Page.availableModels =
                 sort(ResponseModels(ChartAreaInteractive.loads[i].results)))

\* The wait_for_service calls all returned 0, one per service in main's
\* order.
AllReady ==
    /\ Len(setup_local_data.waits) = Len(Services)
    /\ \A k \in DOMAIN Services :
          /\ setup_local_data.waits[k].service_name = Services[k]
          /\ setup_local_data.waits[k].returned = 0

\* C29: wait_for_service probes at most 30 times, returns 0 at the first
\* probe that succeeds and 1 after 30 failed probes; main copies and runs
\* the setup script only after DynamoDB Local and then the Backend API were
\* ready, and otherwise exits with status 1 having done neither.
C29_SetupOnlyWhenReady ==
    /\ setup_local_data.i <= 30 + 1
    /\ setup_local_data.pc = "curl" => setup_local_data.i <= 30
    /\ \A k \in DOMAIN setup_local_data.waits :
          LET wait == setup_local_data.waits[k]
          IN  /\ wait.attempts \in 1..30
              /\ wait.returned = 0 <=> wait.curl = "succeeded"
              /\ wait.returned = 1 <=>
                    (wait.curl = "failed" /\ wait.attempts = 30)
              /\ wait.service_name = Services[k]
              /\ k > 1 => setup_local_data.waits[k - 1].returned = 0
    /\ (setup_local_data.copied \/ setup_local_data.ran
         \/ setup_local_data.pc \in {"docker cp", "docker-compose exec"})
          => AllReady
    /\ setup_local_data.ran => setup_local_data.copied
    /\ (setup_local_data.pc = "exit" /\ ~AllReady) =>
          /\ setup_local_data.status = Some(1)
          /\ ~setup_local_data.copied
          /\ ~setup_local_data.ran

\* DynamoDB Local answered the last of its 30 probes, the Backend API a
\* later one than its first, and the setup script was copied and run.
C29_Witness ==
    /\ AllReady
    /\ setup_local_data.waits[1].attempts = 30
    /\ setup_local_data.waits[2].attempts > 1
    /\ setup_local_data.copied
    /\ setup_local_data.ran
    /\ setup_local_data.status = Some(0)

\* The Backend API failed all its probes after DynamoDB Local was ready.
C29_WitnessNotReady ==
    /\ Len(setup_local_data.waits) = 2
    /\ setup_local_data.waits[1].returned = 0
    /\ setup_local_data.waits[2].returned = 1
    /\ setup_local_data.pc = "exit"

\* The stored events of the paginated call's agent and range.
Paginated ==
    {x \in Range(events_table[query_with_pagination.agent_id]) :
        /\ query_with_pagination.start_time <= x.timestamp
        /\ x.timestamp <= query_with_pagination.end_time}

ReturnedExactly ==
    /\ Range(query_with_pagination.items) = Paginated
    /\ Len(query_with_pagination.items) = Cardinality(Paginated)
    /\ \A i, j \in DOMAIN query_with_pagination.items :
          i < j => query_with_pagination.items[i].timestamp
                      < query_with_pagination.items[j].timestamp

\* C30: for every agent and every range, empty or single-page ones
\* included, query_with_pagination ends by returning, and returns every
\* stored event of the agent in [start_time, end_time] exactly once in
\* ascending timestamp order, however the store splits the pages.
C30_PaginationReturnsAll ==
    query_with_pagination.pc # "idle" =>
       /\ query_with_pagination.pc # "raised"
       /\ query_with_pagination.pc = "returned" => ReturnedExactly
       /\ query_with_pagination.queries <= Cardinality(Paginated) + 1

\* The same for the calls that do not raise.
PaginationReturnsAllUnlessRaised ==
    query_with_pagination.pc \in {"while", "returned"} =>
       /\ query_with_pagination.pc = "returned" => ReturnedExactly
       /\ query_with_pagination.queries <= Cardinality(Paginated) + 1

\* A call that needed a second page has returned.
PaginatedInTwoPages ==
    /\ query_with_pagination.pc = "returned"
    /\ query_with_pagination.queries >= 2
    /\ Len(query_with_pagination.items) = 2

TypeOK ==
    /\ DOMAIN events_table = Agents
    /\ response.status \in {0, 200, 400, 404, 500}
    /\ replaced \in BOOLEAN

====
